---- MODULE Spec2Model ----
(***************************************************************************)
(* Model of src/model.py: class ExtinctionCurve.                           *)
(*                                                                         *)
(* Real numbers are decimal fixed-point integers with seven fractional     *)
(* digits (the integer n stands for n / 10^7).  Every product and quotient *)
(* is truncated toward zero to that resolution, so the model has finite    *)
(* precision like the float64 arithmetic of the code, only coarser.  The   *)
(* four UV constants the source writes with eight decimals are rounded to  *)
(* seven.  A float the code can return that is not a finite number (the    *)
(* quotient of a division by zero) is a record with cls "inf", "-inf" or   *)
(* "nan".                                                                  *)
(***************************************************************************)
EXTENDS Integers, Sequences, FiniteSets

VARIABLES
    x,       \* self.x: the numeric values of the grid handed to __init__
    unit,    \* the unit of self.x; "none" when self.x is no astropy Quantity
    rv,      \* self.rv
    xn,      \* evaluate's local x after np.asarray (line 148), last successful call
    ya,      \* self.a(x) computed by the last successful evaluate
    yb,      \* self.b(x) computed by the last successful evaluate
    ret,     \* outcome of the last evaluate(): returned value or raised exception
    first,   \* outcome of the first evaluate() on this object
    vret,    \* outcome of the last direct call of validate_input_units()
    calls,   \* number of evaluate() calls made so far
    stdout   \* number of lines evaluate() has printed

vars == <<x, unit, rv, xn, ya, yb, ret, first, vret, calls, stdout>>

(***************************************************************************)
(* Bounds of the model.                                                    *)
(***************************************************************************)
MaxLen == 2
MaxCalls == 2

(***************************************************************************)
(* Fixed-point arithmetic.                                                 *)
(***************************************************************************)
S == 10^7

Abs(n) == IF n < 0 THEN -n ELSE n

\* integer quotient truncated toward zero
IDiv(n, d) == IF n < 0 THEN -((-n) \div d) ELSE n \div d

\* product of two non-negative fixed-point numbers below 50, split in limbs
\* of four digits so that no intermediate exceeds 32 bits
MulAbs(m, n) ==
    LET mh == m \div 10^4
        ml == m % 10^4
        nh == n \div 10^4
        nl == n % 10^4
    IN  mh * nh * 10 + ((mh * nl + ml * nh) + (ml * nl) \div 10^4) \div 1000

Mul(m, n) ==
    IF (m < 0) = (n < 0) THEN MulAbs(Abs(m), Abs(n)) ELSE -MulAbs(Abs(m), Abs(n))

RECURSIVE DivFrac(_, _, _)
DivFrac(r, d, n) ==
    IF n = 0 THEN 0
    ELSE ((r * 10) \div d) * 10^(n - 1) + DivFrac((r * 10) % d, d, n - 1)

\* quotient of two fixed-point numbers by long division, d > 0
DivAbs(m, d) == (m \div d) * S + DivFrac(m % d, d, 7)

Div(m, d) ==
    IF (m < 0) = (d < 0) THEN DivAbs(Abs(m), Abs(d)) ELSE -DivAbs(Abs(m), Abs(d))

\* v ** k for a small natural k
RECURSIVE Pw(_, _)
Pw(v, k) == IF k = 0 THEN S ELSE Mul(Pw(v, k - 1), v)

\* natural logarithm, 2 * atanh((v - 1) / (v + 1)), for 0.4 <= v <= 2
RECURSIVE LnSeries(_, _, _)
LnSeries(term, z2, k) ==
    IF k > 14 THEN 0
    ELSE IDiv(term, 2 * k + 1) + LnSeries(Mul(term, z2), z2, k + 1)

Ln(v) ==
    LET z == Div(v - S, v + S)
    IN  2 * LnSeries(z, Mul(z, z), 0)

\* exponential by its Taylor series, for |t| <= 2
RECURSIVE ExpSeries(_, _, _)
ExpSeries(term, t, k) ==
    IF k > 16 THEN 0
    ELSE term + ExpSeries(IDiv(Mul(term, t), k + 1), t, k + 1)

Exp(t) == ExpSeries(S, t, 0)

\* v ** 1.61 as exp(1.61 * ln v); 0 ** 1.61 = 0
Pow161(v) == IF v = 0 THEN 0 ELSE Exp(Mul(16100000, Ln(v)))

(***************************************************************************)
(* Floats returned by evaluate: finite fixed-point numbers, or the         *)
(* non-finite results numpy gives for a division by zero.                  *)
(***************************************************************************)
Fin(v) == [cls |-> "finite", v |-> v]
PosInf == [cls |-> "inf", v |-> 0]
NegInf == [cls |-> "-inf", v |-> 0]
NaN == [cls |-> "nan", v |-> 0]

\* ndarray / scalar, elementwise on one element: numpy raises nothing on a zero
\* divisor, it yields inf, -inf or nan (and a RuntimeWarning)
FDiv(num, den) ==
    IF den = 0
    THEN IF num > 0 THEN PosInf ELSE IF num < 0 THEN NegInf ELSE NaN
    ELSE Fin(Div(num, den))

\* finite + float
FAdd(m, f) == IF f.cls = "finite" THEN Fin(m + f.v) ELSE f

(***************************************************************************)
(* Outcomes of a call.                                                     *)
(***************************************************************************)
NoCall == [kind |-> "none", val |-> <<>>, exc |-> "", msg |-> ""]
Returned(v) == [kind |-> "return", val |-> v, exc |-> "", msg |-> ""]
Raised(e, m) == [kind |-> "raise", val |-> <<>>, exc |-> e, msg |-> m]

(***************************************************************************)
(* Units (astropy.units).                                                  *)
(***************************************************************************)
Units == {"none", "1/micron", "1/nm", "micron", "nm", "kg", "s", "dimensionless"}

\* isinstance(self.x, u.Quantity)
IsQuantity(u) == u # "none"

\* u.get_physical_type(unit)
get_physical_type(u) ==
    CASE u \in {"micron", "nm"} -> "length"
      [] u \in {"1/micron", "1/nm"} -> "wavenumber"
      [] u = "kg" -> "mass"
      [] u = "s" -> "time"
      [] OTHER -> "dimensionless"

\* Quantity.to(micron) for a length, Quantity.to(1/micron) for a wavenumber:
\* the value times the unit's scale factor
To(v, u) ==
    CASE u = "nm" -> v \div 1000
      [] u = "1/nm" -> v * 1000
      [] OTHER -> v

MsgType == "Input unit must be of type 'length' or 'wavenumber'."
MsgNoUnit == "Input unit not specified."

\* mutant: a grid without a unit is taken to be in 1/micron
validate_input_units_NoUnitAccepted(q, u) ==
    IF IsQuantity(u)
    THEN IF get_physical_type(u) = "length"
         THEN Returned([i \in 1..Len(q) |-> Div(S, To(q[i], u))])
         ELSE IF get_physical_type(u) = "wavenumber"
              THEN Returned([i \in 1..Len(q) |-> To(q[i], u)])
              ELSE Raised("ValueError", MsgType)
    ELSE Returned(q)

\* mutant: a length is converted to micrometers and not inverted
validate_input_units_NoReciprocal(q, u) ==
    IF IsQuantity(u)
    THEN IF get_physical_type(u) \in {"length", "wavenumber"}
         THEN Returned([i \in 1..Len(q) |-> To(q[i], u)])
         ELSE Raised("ValueError", MsgType)
    ELSE Raised("ValueError", MsgNoUnit)

\* validate_input_units: the grid in 1/micron, or a ValueError
validate_input_units(q, u) ==
    IF IsQuantity(u)
    THEN IF get_physical_type(u) = "length"
         THEN Returned([i \in 1..Len(q) |-> Div(S, To(q[i], u))])
         ELSE IF get_physical_type(u) = "wavenumber"
              THEN Returned([i \in 1..Len(q) |-> To(q[i], u)])
              ELSE Raised("ValueError", MsgType)
    ELSE Raised("ValueError", MsgNoUnit)

\* mutant: validate_input_units stores the converted grid in self.x (the
\* assignments the source has commented out)
SelfXAfterValidate_Assigns(q, u) ==
    IF IsQuantity(u) /\ get_physical_type(u) = "length"
    THEN <<[i \in 1..Len(q) |-> Div(S, To(q[i], u))], "1/micron">>
    ELSE IF IsQuantity(u) /\ get_physical_type(u) = "wavenumber"
         THEN <<[i \in 1..Len(q) |-> To(q[i], u)], "1/micron">>
         ELSE <<q, u>>

\* what validate_input_units leaves in self.x: it assigns nothing (the two
\* assignments to self.x are commented out)
SelfXAfterValidate(q, u) == <<q, u>>

(***************************************************************************)
(* numpy boolean-mask indexing.                                            *)
(***************************************************************************)
\* indices i..Len(m) at which mask m is true, ascending
RECURSIVE Where(_, _)
Where(m, i) ==
    IF i > Len(m) THEN <<>>
    ELSE (IF m[i] THEN <<i>> ELSE <<>>) \o Where(m, i + 1)

\* xs[m]
Take(xs, m) == [k \in 1..Len(Where(m, 1)) |-> xs[Where(m, 1)[k]]]

\* mutant: the values are written back in reverse order
Put_Reversed(y, m, vals) ==
    [i \in 1..Len(y) |->
        IF m[i] THEN vals[Cardinality({j \in i..Len(y) : m[j]})] ELSE y[i]]

\* y[m] = vals: the k-th true position of m receives vals[k]
Put(y, m, vals) ==
    [i \in 1..Len(y) |->
        IF m[i] THEN vals[Cardinality({j \in 1..i : m[j]})] ELSE y[i]]

\* np.zeros_like(xs)
Zeros(xs) == [i \in 1..Len(xs) |-> 0]

(***************************************************************************)
(* UV correction terms.                                                    *)
(***************************************************************************)
X_IR == 11000000
X_UV == 32429000
X_BUMP == 59000000

\* mutant: the correction applied below the threshold too
fa_NoThreshold(xs) ==
    [i \in 1..Len(xs) |->
        Mul(10004, Pw(xs[i] - X_BUMP, 2)) + Mul(1000, Pw(xs[i] - X_BUMP, 3))]

\* mutant: the quadratic coefficient with the wrong sign
fa_SignSlip(xs) ==
    [i \in 1..Len(xs) |->
        IF xs[i] >= X_BUMP
        THEN Mul(-10004, Pw(xs[i] - X_BUMP, 2)) + Mul(1000, Pw(xs[i] - X_BUMP, 3))
        ELSE 0]

fa(xs) ==
    [i \in 1..Len(xs) |->
        IF xs[i] >= X_BUMP
        THEN Mul(10004, Pw(xs[i] - X_BUMP, 2)) + Mul(1000, Pw(xs[i] - X_BUMP, 3))
        ELSE 0]

fb(xs) ==
    [i \in 1..Len(xs) |->
        IF xs[i] >= X_BUMP
        THEN Mul(2854800, Pw(xs[i] - X_BUMP, 2)) + Mul(1000, Pw(xs[i] - X_BUMP, 3))
        ELSE 0]

(***************************************************************************)
(* A(x): masks and the formula of each region.                             *)
(***************************************************************************)
\* mutant: the optical mask closed at 1.1
AMask2_ClosedBelow(xs) == [i \in 1..Len(xs) |-> (xs[i] >= X_IR) /\ (xs[i] <= X_UV)]

AMask1(xs) == [i \in 1..Len(xs) |-> xs[i] <= X_IR]
AMask2(xs) == [i \in 1..Len(xs) |-> (xs[i] > X_IR) /\ (xs[i] <= X_UV)]
AMask3(xs) == [i \in 1..Len(xs) |-> xs[i] > X_UV]

\* 0.574 * x**1.61
AIr(xs) == [i \in 1..Len(xs) |-> Mul(5740000, Pow161(xs[i]))]

\* the degree-7 polynomial in y2 = x - 1.82
AOpt(xs) ==
    [i \in 1..Len(xs) |->
        LET y2 == xs[i] - 18200000
        IN  S + Mul(1769900, y2) - Mul(5044700, Pw(y2, 2)) - Mul(242700, Pw(y2, 3))
              + Mul(7208500, Pw(y2, 4)) + Mul(197900, Pw(y2, 5))
              - Mul(7753000, Pw(y2, 6)) + Mul(3299900, Pw(y2, 7))]

\* mutant: the UV constants of the other law variant
AUvBase_OtherVariant(xs) ==
    [i \in 1..Len(xs) |->
        17520000 - Mul(3160000, xs[i])
        - Div(1040000, Pw(xs[i] - 46700000, 2) + 3410000)]

\* the UV formula without the correction term
AUvBase(xs) ==
    [i \in 1..Len(xs) |->
        -11089564 + Mul(5331417, xs[i])
        + Div(173480, Pw(xs[i] - 46000000, 2) + 2444000)]

AUv(xs) == [i \in 1..Len(xs) |-> AUvBase(xs)[i] + fa(xs)[i]]

a(xs) ==
    LET y1 == Put(Zeros(xs), AMask1(xs), AIr(Take(xs, AMask1(xs))))
        y2 == Put(y1, AMask2(xs), AOpt(Take(xs, AMask2(xs))))
    IN  Put(y2, AMask3(xs), AUv(Take(xs, AMask3(xs))))

(***************************************************************************)
(* B(x).                                                                   *)
(***************************************************************************)
BMask1(xs) == [i \in 1..Len(xs) |-> xs[i] <= X_IR]
BMask2(xs) == [i \in 1..Len(xs) |-> (xs[i] > X_IR) /\ (xs[i] <= X_UV)]
BMask3(xs) == [i \in 1..Len(xs) |-> xs[i] > X_UV]

BIr(xs) == [i \in 1..Len(xs) |-> Mul(-5270000, Pow161(xs[i]))]

BOpt(xs) ==
    [i \in 1..Len(xs) |->
        LET y2 == xs[i] - 18200000
        IN  Mul(14133800, y2) + Mul(22830500, Pw(y2, 2)) + Mul(10723300, Pw(y2, 3))
              - Mul(53843400, Pw(y2, 4)) - Mul(6225100, Pw(y2, 5))
              + Mul(53026000, Pw(y2, 6)) - Mul(20900200, Pw(y2, 7))]

BUvBase(xs) ==
    [i \in 1..Len(xs) |->
        10115493 + Mul(7680946, xs[i])
        + Div(478070, Pw(xs[i] - 46000000, 2) + 2444000)]

BUv(xs) == [i \in 1..Len(xs) |-> BUvBase(xs)[i] + fb(xs)[i]]

b(xs) ==
    LET y1 == Put(Zeros(xs), BMask1(xs), BIr(Take(xs, BMask1(xs))))
        y2 == Put(y1, BMask2(xs), BOpt(Take(xs, BMask2(xs))))
    IN  Put(y2, BMask3(xs), BUv(Take(xs, BMask3(xs))))

(***************************************************************************)
(* evaluate.                                                               *)
(***************************************************************************)
\* mutant: the sum divided by rv
Combine_DividesSum(av, bv, r) ==
    [i \in 1..Len(av) |-> FDiv(av[i] + bv[i], r)]

\* self.a(x) + self.b(x) / self.rv
Combine(av, bv, r) == [i \in 1..Len(av) |-> FAdd(av[i], FDiv(bv[i], r))]

\* np.asarray(x) on the Quantity validate_input_units returned: its values,
\* the unit dropped
AsArray(v) == v.val

\* the outcome of evaluate() on grid q with unit u and shape parameter r
evaluate(q, u, r) ==
    LET v == validate_input_units(q, u)
    IN  IF v.kind = "raise" THEN v
        ELSE Returned(Combine(a(AsArray(v)), b(AsArray(v)), r))

(***************************************************************************)
(* The state machine: one ExtinctionCurve object and the calls made on it. *)
(***************************************************************************)
WaveSamples ==
    {10000000, 11000000, 11000001, 32429000, 32429001,
     58999999, 59000000, 59000001, 60000000, 80000000}

Samples(u) ==
    CASE u = "1/micron" -> WaveSamples
      [] u = "micron" -> {1250000, 2000000, 3000000, 10000000}
      [] u = "nm" -> {1250000000, 2000000000}
      [] u = "1/nm" -> {10000, 50000}
      [] OTHER -> {10000000, 50000000}

RVs == {0, 27400000, 31000000}

Grids(u) == UNION {[1..n -> Samples(u)] : n \in 0..MaxLen}

\* __init__(x, rv): stores both, computes nothing
Init ==
    /\ unit \in Units
    /\ x \in Grids(unit)
    /\ rv \in RVs
    /\ xn = <<>>
    /\ ya = <<>>
    /\ yb = <<>>
    /\ ret = NoCall
    /\ first = NoCall
    /\ vret = NoCall
    /\ calls = 0
    /\ stdout = 0

\* evaluate() when validate_input_units returns
EvaluateReturns ==
    /\ calls < MaxCalls
    /\ validate_input_units(x, unit).kind = "return"
    /\ x' = SelfXAfterValidate(x, unit)[1]
    /\ unit' = SelfXAfterValidate(x, unit)[2]
    /\ xn' = AsArray(validate_input_units(x, unit))
    /\ ya' = a(xn')
    /\ yb' = b(xn')
    /\ ret' = evaluate(x, unit, rv)
    /\ first' = IF calls = 0 THEN ret' ELSE first
    /\ calls' = calls + 1
    /\ stdout' = stdout + 2
    /\ UNCHANGED <<rv, vret>>

\* evaluate() when validate_input_units raises: the exception propagates
EvaluateRaises ==
    /\ calls < MaxCalls
    /\ validate_input_units(x, unit).kind = "raise"
    /\ x' = SelfXAfterValidate(x, unit)[1]
    /\ unit' = SelfXAfterValidate(x, unit)[2]
    /\ ret' = evaluate(x, unit, rv)
    /\ first' = IF calls = 0 THEN ret' ELSE first
    /\ calls' = calls + 1
    /\ UNCHANGED <<rv, xn, ya, yb, vret, stdout>>

\* a direct call of validate_input_units()
ValidateInputUnits ==
    /\ x' = SelfXAfterValidate(x, unit)[1]
    /\ unit' = SelfXAfterValidate(x, unit)[2]
    /\ vret' = validate_input_units(x, unit)
    /\ UNCHANGED <<rv, xn, ya, yb, ret, first, calls, stdout>>

Next == EvaluateReturns \/ EvaluateRaises \/ ValidateInputUnits

Spec == Init /\ [][Next]_vars

(***************************************************************************)
(* Vocabulary of the properties.                                           *)
(***************************************************************************)
Tol == S \div 1000

Evaluated == calls > 0
EvaluatedOk == calls > 0 /\ ret.kind = "return"

LengthUnits == {"micron", "nm"}
WavenumberUnits == {"1/micron", "1/nm"}

\* the value of a length in micrometers, of a wavenumber in 1/micrometers
InMicron(v, u) == IF u = "nm" THEN v \div 1000 ELSE v
InPerMicron(v, u) == IF u = "1/nm" THEN v * 1000 ELSE v

\* the remainder left by the long division 1 / len: 0 when the reciprocal of
\* len is a number of the model
RECURSIVE RecipRem(_, _, _)
RecipRem(r, len, n) == IF n = 0 THEN r ELSE RecipRem((r * 10) % len, len, n - 1)
ExactRecip(len) == RecipRem(S % len, len, 7) = 0

Region(v) == IF v <= 11000000 THEN "IR" ELSE IF v <= 32429000 THEN "OPT" ELSE "UV"

B2N(t) == IF t THEN 1 ELSE 0

\* C1 (as claimed): with valid units and rv = 0, evaluate() raises a division
\* by zero error and returns no result.
C1_ZeroRvRaises ==
    (Evaluated /\ rv = 0 /\ unit \in LengthUnits \cup WavenumberUnits)
        => (ret.kind = "raise" /\ ret.exc = "ZeroDivisionError")

C3_RegionsPartition ==
    EvaluatedOk =>
        \A i \in 1..Len(xn) :
            /\ B2N(AMask1(xn)[i]) + B2N(AMask2(xn)[i]) + B2N(AMask3(xn)[i]) = 1
            /\ B2N(BMask1(xn)[i]) + B2N(BMask2(xn)[i]) + B2N(BMask3(xn)[i]) = 1
            /\ AMask1(xn)[i] = BMask1(xn)[i]
            /\ AMask2(xn)[i] = BMask2(xn)[i]
            /\ AMask3(xn)[i] = BMask3(xn)[i]
            /\ AMask1(xn)[i] = (xn[i] <= 11000000)
            /\ AMask3(xn)[i] = (xn[i] > 32429000)
            /\ ya[i] = CASE Region(xn[i]) = "IR" -> AIr(<<xn[i]>>)[1]
                         [] Region(xn[i]) = "OPT" -> AOpt(<<xn[i]>>)[1]
                         [] OTHER -> AUv(<<xn[i]>>)[1]
            /\ yb[i] = CASE Region(xn[i]) = "IR" -> BIr(<<xn[i]>>)[1]
                         [] Region(xn[i]) = "OPT" -> BOpt(<<xn[i]>>)[1]
                         [] OTHER -> BUv(<<xn[i]>>)[1]

C3_Witness ==
    EvaluatedOk /\ xn = <<11000000, 32429000>>

\* C4: the result has the length of the grid, and its element i is what
\* evaluate() returns for the one-element grid holding element i.
C4_Positional ==
    EvaluatedOk =>
        /\ Len(ret.val) = Len(x)
        /\ \A i \in 1..Len(x) : ret.val[i] = evaluate(<<x[i]>>, unit, rv).val[1]

C4_Witness ==
    EvaluatedOk /\ x = <<80000000, 60000000>> /\ unit = "1/micron"

C6_ReadOnly ==
    [][/\ x' = x
       /\ unit' = unit
       /\ rv' = rv
       /\ (calls' > 0 => ret' = first')]_vars

C6_Witness ==
    /\ calls = 2
    /\ ret.kind = "return"
    /\ vret.kind = "return"
    /\ unit = "micron"
    /\ Len(x) = 2

\* C7 (as claimed): for the grid [1.0] in 1/micron and rv = 3.1 the result is
\* 0.4041 to four decimals.
C7_AsClaimed ==
    (EvaluatedOk /\ unit = "1/micron" /\ x = <<10000000>> /\ rv = 31000000)
        => Abs(ret.val[1].v - 4041000) < 500

\* C7 (amended): with valid units and rv # 0 every result element is
\* a(x_i) + b(x_i) / rv for the normalized x_i, only b divided by rv; for the
\* grid [1.0] in 1/micron and rv = 3.1 the sample is infrared, a = 0.574,
\* b = -0.527 and the result is 0.4040.
C7_Combination ==
    /\ (EvaluatedOk /\ rv # 0)
           => \A i \in 1..Len(xn) :
                  ret.val[i] = Fin(a(<<xn[i]>>)[1] + Div(b(<<xn[i]>>)[1], rv))
    /\ (EvaluatedOk /\ unit = "1/micron" /\ x = <<10000000>> /\ rv = 31000000)
           => /\ xn = <<10000000>>
              /\ Region(xn[1]) = "IR"
              /\ ya = <<5740000>>
              /\ yb = <<-5270000>>
              /\ Abs(ret.val[1].v - 4040000) <= 5

C7_Witness ==
    EvaluatedOk /\ unit = "1/micron" /\ x = <<10000000>> /\ rv = 31000000

\* C8 (as claimed): at x = 3.2429 the optical polynomial and the UV formula
\* agree to within 0.001, for a and for b.
C8_AsClaimed ==
    EvaluatedOk =>
        \A i \in 1..Len(xn) :
            xn[i] = 32429000 =>
                /\ Abs(ya[i] - AUv(<<xn[i]>>)[1]) <= Tol
                /\ Abs(yb[i] - BUv(<<xn[i]>>)[1]) <= Tol

\* C8 (amended): at x = 3.2429 the optical polynomial gives a = 0.6933 and
\* b = 3.3472, the UV formula a = 0.6283 and b = 3.5253: a drops by about
\* 0.065 and b rises by about 0.178;
\* the combination a + b / rv with the default rv = 2.74 is continuous there
\* to within 0.001.
C8_BoundaryJump ==
    EvaluatedOk =>
        \A i \in 1..Len(xn) :
            xn[i] = 32429000 =>
                /\ Abs(ya[i] - 6933000) <= Tol
                /\ Abs(AUv(<<xn[i]>>)[1] - 6283000) <= Tol
                /\ Abs(yb[i] - 33472000) <= Tol
                /\ Abs(BUv(<<xn[i]>>)[1] - 35253000) <= Tol
                /\ Abs((ya[i] - AUv(<<xn[i]>>)[1]) - 650000) <= Tol
                /\ Abs((BUv(<<xn[i]>>)[1] - yb[i]) - 1781000) <= Tol
                /\ rv = 27400000 =>
                       Abs(ret.val[i].v
                           - (AUv(<<xn[i]>>)[1] + Div(BUv(<<xn[i]>>)[1], rv))) <= Tol

C8_Witness ==
    EvaluatedOk /\ rv = 27400000 /\ xn = <<32429000, 32429001>>

\* C9: fa and fb are 0 below 5.9 and p*(x-5.9)^2 + q*(x-5.9)^3 from 5.9 on, so
\* both are 0 at 5.9 and a, b do not jump there; a and b add the correction
\* only to ultraviolet samples, and it adds nothing between 3.2429 and 5.9.
C9_Bump ==
    EvaluatedOk =>
        /\ \A i \in 1..Len(xn) :
               LET d == xn[i] - 59000000
                   va == fa(<<xn[i]>>)[1]
                   vb == fb(<<xn[i]>>)[1]
               IN  /\ xn[i] < 59000000 => (va = 0 /\ vb = 0)
                   /\ xn[i] = 59000000 => (va = 0 /\ vb = 0)
                   /\ xn[i] >= 59000000 =>
                          /\ va = Mul(10004, Mul(d, d)) + Mul(1000, Mul(Mul(d, d), d))
                          /\ vb = Mul(2854800, Mul(d, d)) + Mul(1000, Mul(Mul(d, d), d))
                   /\ xn[i] > 32429000 =>
                          /\ ya[i] = AUvBase(<<xn[i]>>)[1] + va
                          /\ yb[i] = BUvBase(<<xn[i]>>)[1] + vb
                   /\ (xn[i] > 32429000 /\ xn[i] < 59000000) =>
                          /\ ya[i] = AUvBase(<<xn[i]>>)[1]
                          /\ yb[i] = BUvBase(<<xn[i]>>)[1]
                   /\ (xn[i] > 11000000 /\ xn[i] <= 32429000) =>
                          /\ ya[i] = AOpt(<<xn[i]>>)[1]
                          /\ yb[i] = BOpt(<<xn[i]>>)[1]
        /\ \A i, j \in 1..Len(xn) :
               (xn[i] = 58999999 /\ xn[j] = 59000000) =>
                   /\ Abs(ya[j] - ya[i]) <= 5
                   /\ Abs(yb[j] - yb[i]) <= 5

C9_Witness ==
    EvaluatedOk /\ xn = <<58999999, 59000000>>

====
